---- MODULE Spec2Model ----
(***************************************************************************)
(* Model of the single-threaded ClearPath-SC example (src/main.cpp) and of *)
(* two functions of the Linux OS shim (src/foundation/lnkAccessLinux.cpp). *)
(*                                                                         *)
(* The driver core (SysManager, IPort, INode, Axis) is not part of the     *)
(* repository: every call into it is an event appended to `log`, and a     *)
(* call may raise a structured error (mnErr) or any other exception.       *)
(***************************************************************************)
EXTENDS Integers, Sequences, FiniteSets, TLC

\* ---------------------------------------------------------------- bounds
MaxNodes == 3          \* nodes attached to one port
MaxArgc == 3           \* argc ranges over 1..MaxArgc
MaxBufLen == 13        \* maxLen of infcErrCodeStrA ranges over 0..MaxBufLen
MaxCode == 17          \* lookupCode ranges over 0..MaxCode (one and two hex digits)
MaxAddr == 5           \* cNum of infcDbgDepth ranges over 0..MaxAddr
MaxDepth == 1          \* MaxDepth() of a serial port ranges over 0..MaxDepth

\* ------------------------------------------------------ program constants
numPorts == 1
NET_CONTROLLER_MAX == 3

CLEARPATH_SC_ADV == "CLEARPATH_SC_ADV"
CLEARPATH_SC == "CLEARPATH_SC"
OTHER_NODE == "OTHER_NODE"
NodeTypes == {CLEARPATH_SC_ADV, CLEARPATH_SC, OTHER_NODE}

\* a netStateInfo pointer: NULL, or a controller whose port has this MaxDepth()
NullPtr == [isNull |-> TRUE, depth |-> 0]
PNCSVals == {NullPtr} \cup {[isNull |-> FALSE, depth |-> d] : d \in 0..MaxDepth}

NodeRecs == [type : NodeTypes, full : BOOLEAN]
NodeSeqs == UNION {[1..k -> NodeRecs] : k \in 0..MaxNodes}
ErrKinds == {"mnErr", "unknown"}

VARIABLES
    argc,            \* main's argc
    ports,           \* the network: ports[p+1][n+1] is node n of port p
    pc,              \* position of main
    netState,        \* Unopened, OpenFailed, Opened, Ready, Rejected
    iPort, iNode,    \* loop indices of the enumeration loop
    listOfAxes,      \* vector<Axis*>: the <<port, node>> each Axis wraps
    nodeTypesGood, accessLvlsGood,
    iAxis,           \* loop index of the AxisMain loop
    returnVal,
    caught,          \* which catch clause of main ran: none, mnErr, unknown
    log,             \* calls made into the driver and to msgUser, in order
    SysInventory,    \* mnNetInvRecords SysInventory[NET_CONTROLLER_MAX]: the pNCS fields
    shim             \* the OS shim call made last, with its result

mainVars == <<argc, ports, pc, netState, iPort, iNode, listOfAxes,
              nodeTypesGood, accessLvlsGood, iAxis, returnVal, caught, log>>
vars == <<argc, ports, pc, netState, iPort, iNode, listOfAxes,
          nodeTypesGood, accessLvlsGood, iAxis, returnVal, caught, log,
          SysInventory, shim>>

\* ------------------------------------------------------------- helpers
NodeCount(p) == Len(ports[p + 1])
Nodes(p, n) == ports[p + 1][n + 1]

\* theNode.Info.NodeType() is one of the two ClearPath-SC models
IsClearPathSC(t) == ~(t # CLEARPATH_SC_ADV /\ t # CLEARPATH_SC)

\* mutant: the flag follows the node checked last
NodeTypesGoodLatest(ntg, t) == IsClearPathSC(t)

\* nodeTypesGood after the type check of a node of type t
NodeTypesGoodAfter(ntg, t) == IF ~IsClearPathSC(t) THEN FALSE ELSE ntg

\* mutant: an Axis is constructed whatever the type check said
AxisWantedAlways(ntg) == TRUE

\* the guard of the block that constructs the Axis and checks the access level
AxisWanted(ntg) == ntg

\* mutant: the access level is never looked at
AccessLvlsGoodUnchecked(alg, full) == alg

\* accessLvlsGood after the access check of a node
AccessLvlsGoodAfter(alg, full) == IF ~full THEN FALSE ELSE alg

\* mutant: the axes are run when the node types alone are good
ProceedTypesOnly(ntg, alg) == ntg

\* the condition under which the axes are run
Proceed(ntg, alg) == ntg /\ alg

\* mutant: the access failure is reported before the type failure
RejectCodeAccessFirst(ntg, alg, rv) ==
    IF ~alg THEN -6
    ELSE IF ~ntg THEN -5
    ELSE rv

\* returnVal after the else branch that reports what is wrong with the nodes
RejectCode(ntg, alg, rv) ==
    IF ~ntg THEN -5
    ELSE IF ~alg THEN -6
    ELSE rv

\* the node statistics InitializeSysManager prints for ports p..numPorts-1
RECURSIVE StatsLog(_)
StatsLog(p) ==
    IF p >= numPorts THEN <<>>
    ELSE <<<<"NodeCount", p>>>>
         \o [n \in 1..NodeCount(p) |-> <<"Nodes", p, n - 1>>]
         \o StatsLog(p + 1)

\* a catch clause of main: the try block is left, returnVal is set
Catch(kind) ==
    /\ caught' = kind
    /\ returnVal' = IF kind = "mnErr" THEN -3 ELSE -4
    /\ pc' = "bye"

\* ------------------------------------------------------------- Init
Init ==
    /\ argc \in 1..MaxArgc
    /\ ports \in [1..numPorts -> NodeSeqs]
    /\ pc = "start"
    /\ netState = "Unopened"
    /\ iPort = 0
    /\ iNode = 0
    /\ listOfAxes = <<>>
    /\ nodeTypesGood = TRUE
    /\ accessLvlsGood = TRUE
    /\ iAxis = 0
    /\ returnVal = 0
    /\ caught = "none"
    /\ log = <<>>
    /\ SysInventory = [c \in 0..NET_CONTROLLER_MAX - 1 |-> NullPtr]
    /\ shim = [fn |-> "none"]

\* ------------------------------------------------------------- main
\* argc != 2: usage text, msgUser, return -1
Usage ==
    /\ pc = "start"
    /\ argc # 2
    /\ log' = Append(log, <<"msgUser">>)
    /\ returnVal' = -1
    /\ pc' = "done"
    /\ UNCHANGED <<argc, ports, netState, iPort, iNode, listOfAxes,
                   nodeTypesGood, accessLvlsGood, iAxis, caught, SysInventory, shim>>

\* InitializeSysManager returns true: the ports are open, the node statistics
\* are printed; main declares listOfAxes and the two flags
InitializeOk ==
    /\ pc = "start"
    /\ argc = 2
    /\ log' = log \o <<<<"ComHubPort", 0>>, <<"PortsOpen", "ok">>>> \o StatsLog(0)
    /\ netState' = "Opened"
    /\ listOfAxes' = <<>>
    /\ nodeTypesGood' = TRUE
    /\ accessLvlsGood' = TRUE
    /\ iPort' = 0
    /\ pc' = "port"
    /\ UNCHANGED <<argc, ports, iNode, iAxis, returnVal, caught, SysInventory, shim>>

\* mutant: the catch clause of InitializeSysManager does not return, so the
\* node statistics are printed and true is returned
InitializeOpenFailsNoReturn ==
    /\ pc = "start"
    /\ argc = 2
    /\ log' = log \o <<<<"ComHubPort", 0>>, <<"PortsOpen", "mnErr">>>> \o StatsLog(0)
    /\ netState' = "OpenFailed"
    /\ iPort' = 0
    /\ pc' = "port"
    /\ UNCHANGED <<argc, ports, iNode, listOfAxes, nodeTypesGood,
                   accessLvlsGood, iAxis, returnVal, caught, SysInventory, shim>>

\* PortsOpen raises mnErr: InitializeSysManager catches it and returns false,
\* main prints the error, calls msgUser and returns -2
InitializeOpenFails ==
    /\ pc = "start"
    /\ argc = 2
    /\ log' = log \o <<<<"ComHubPort", 0>>, <<"PortsOpen", "mnErr">>, <<"msgUser">>>>
    /\ netState' = "OpenFailed"
    /\ returnVal' = -2
    /\ pc' = "done"
    /\ UNCHANGED <<argc, ports, iPort, iNode, listOfAxes, nodeTypesGood,
                   accessLvlsGood, iAxis, caught, SysInventory, shim>>

\* PortsOpen raises something that is no mnErr: it passes through
\* InitializeSysManager and reaches catch (...) of main
InitializeOpenThrows ==
    /\ pc = "start"
    /\ argc = 2
    /\ log' = log \o <<<<"ComHubPort", 0>>, <<"PortsOpen", "unknown">>>>
    /\ netState' = "OpenFailed"
    /\ Catch("unknown")
    /\ UNCHANGED <<argc, ports, iPort, iNode, listOfAxes, nodeTypesGood,
                   accessLvlsGood, iAxis, SysInventory, shim>>

\* the ports open, and a query made while printing the node statistics raises
InitializeStatsThrow(kind) ==
    /\ pc = "start"
    /\ argc = 2
    /\ log' = log \o <<<<"ComHubPort", 0>>, <<"PortsOpen", "ok">>, <<"NodeCount", 0>>>>
    /\ netState' = "Opened"
    /\ Catch(kind)
    /\ UNCHANGED <<argc, ports, iPort, iNode, listOfAxes, nodeTypesGood,
                   accessLvlsGood, iAxis, SysInventory, shim>>

\* head of the loop over the ports: the port's line is printed
PortHead ==
    /\ pc = "port"
    /\ iPort < numPorts
    /\ log' = Append(log, <<"NodeCount", iPort>>)
    /\ iNode' = 0
    /\ pc' = "node"
    /\ UNCHANGED <<argc, ports, netState, iPort, listOfAxes, nodeTypesGood,
                   accessLvlsGood, iAxis, returnVal, caught, SysInventory, shim>>

PortHeadThrow(kind) ==
    /\ pc = "port"
    /\ iPort < numPorts
    /\ log' = Append(log, <<"NodeCount", iPort>>)
    /\ Catch(kind)
    /\ UNCHANGED <<argc, ports, netState, iPort, iNode, listOfAxes,
                   nodeTypesGood, accessLvlsGood, iAxis, SysInventory, shim>>

\* one iteration of the loop over the nodes of port iPort
VisitNode ==
    /\ pc = "node"
    /\ iNode < NodeCount(iPort)
    /\ LET theNode == Nodes(iPort, iNode)
           ntg == NodeTypesGoodAfter(nodeTypesGood, theNode.type)
       IN  /\ nodeTypesGood' = ntg
           /\ IF AxisWanted(ntg)
              THEN /\ listOfAxes' = Append(listOfAxes, <<iPort, iNode>>)
                   /\ log' = log \o <<<<"Nodes", iPort, iNode>>,
                                      <<"new", iPort, iNode>>,
                                      <<"AccessLevelIsFull", iPort, iNode>>>>
                   /\ accessLvlsGood' =
                          AccessLvlsGoodAfter(accessLvlsGood, theNode.full)
              ELSE /\ log' = Append(log, <<"Nodes", iPort, iNode>>)
                   /\ UNCHANGED <<listOfAxes, accessLvlsGood>>
    /\ iNode' = iNode + 1
    /\ UNCHANGED <<argc, ports, pc, netState, iPort, iAxis, returnVal, caught, SysInventory, shim>>

\* Nodes(iNode) or NodeType() raises: nothing of the iteration has happened
VisitNodeThrowQuery(kind) ==
    /\ pc = "node"
    /\ iNode < NodeCount(iPort)
    /\ log' = Append(log, <<"Nodes", iPort, iNode>>)
    /\ Catch(kind)
    /\ UNCHANGED <<argc, ports, netState, iPort, iNode, listOfAxes,
                   nodeTypesGood, accessLvlsGood, iAxis, SysInventory, shim>>

\* new Axis(&theNode) raises: nothing is pushed onto listOfAxes
VisitNodeThrowNew(kind) ==
    /\ pc = "node"
    /\ iNode < NodeCount(iPort)
    /\ LET theNode == Nodes(iPort, iNode)
           ntg == NodeTypesGoodAfter(nodeTypesGood, theNode.type)
       IN  /\ AxisWanted(ntg)
           /\ nodeTypesGood' = ntg
           /\ log' = Append(log, <<"Nodes", iPort, iNode>>)
    /\ Catch(kind)
    /\ UNCHANGED <<argc, ports, netState, iPort, iNode, listOfAxes,
                   accessLvlsGood, iAxis, SysInventory, shim>>

\* the Axis is constructed and pushed, then AccessLevelIsFull() raises
VisitNodeThrowAccess(kind) ==
    /\ pc = "node"
    /\ iNode < NodeCount(iPort)
    /\ LET theNode == Nodes(iPort, iNode)
           ntg == NodeTypesGoodAfter(nodeTypesGood, theNode.type)
       IN  /\ AxisWanted(ntg)
           /\ nodeTypesGood' = ntg
           /\ listOfAxes' = Append(listOfAxes, <<iPort, iNode>>)
           /\ log' = log \o <<<<"Nodes", iPort, iNode>>,
                              <<"new", iPort, iNode>>,
                              <<"AccessLevelIsFull", iPort, iNode>>>>
    /\ Catch(kind)
    /\ UNCHANGED <<argc, ports, netState, iPort, iNode, accessLvlsGood, iAxis, SysInventory, shim>>

\* the loop over the nodes ends: next port
NextPort ==
    /\ pc = "node"
    /\ iNode >= NodeCount(iPort)
    /\ iPort' = iPort + 1
    /\ pc' = "port"
    /\ UNCHANGED <<argc, ports, netState, iNode, listOfAxes, nodeTypesGood,
                   accessLvlsGood, iAxis, returnVal, caught, log, SysInventory, shim>>

\* the loop over the ports ends: run the axes, or report what is wrong
Decide ==
    /\ pc = "port"
    /\ iPort >= numPorts
    /\ IF Proceed(nodeTypesGood, accessLvlsGood)
       THEN /\ netState' = "Ready"
            /\ iAxis' = 0
            /\ pc' = "run"
            /\ UNCHANGED returnVal
       ELSE /\ netState' = "Rejected"
            /\ returnVal' = RejectCode(nodeTypesGood, accessLvlsGood, returnVal)
            /\ pc' = "delete"
            /\ UNCHANGED iAxis
    /\ UNCHANGED <<argc, ports, iPort, iNode, listOfAxes, nodeTypesGood,
                   accessLvlsGood, caught, log, SysInventory, shim>>

\* listOfAxes.at(iAxis)->AxisMain() returns
RunAxis ==
    /\ pc = "run"
    /\ iAxis < Len(listOfAxes)
    /\ log' = Append(log, <<"AxisMain">> \o listOfAxes[iAxis + 1])
    /\ iAxis' = iAxis + 1
    /\ UNCHANGED <<argc, ports, pc, netState, iPort, iNode, listOfAxes,
                   nodeTypesGood, accessLvlsGood, returnVal, caught, SysInventory, shim>>

\* listOfAxes.at(iAxis)->AxisMain() raises
RunAxisThrow(kind) ==
    /\ pc = "run"
    /\ iAxis < Len(listOfAxes)
    /\ log' = Append(log, <<"AxisMain">> \o listOfAxes[iAxis + 1])
    /\ Catch(kind)
    /\ UNCHANGED <<argc, ports, netState, iPort, iNode, listOfAxes,
                   nodeTypesGood, accessLvlsGood, iAxis, SysInventory, shim>>

RunDone ==
    /\ pc = "run"
    /\ iAxis >= Len(listOfAxes)
    /\ pc' = "delete"
    /\ UNCHANGED <<argc, ports, netState, iPort, iNode, listOfAxes,
                   nodeTypesGood, accessLvlsGood, iAxis, returnVal, caught,
                   log, SysInventory, shim>>

\* the loop that deletes every Axis of listOfAxes
DeleteAxes ==
    /\ pc = "delete"
    /\ log' = log \o [i \in 1..Len(listOfAxes) |-> <<"delete">> \o listOfAxes[i]]
    /\ pc' = "close"
    /\ UNCHANGED <<argc, ports, netState, iPort, iNode, listOfAxes,
                   nodeTypesGood, accessLvlsGood, iAxis, returnVal, caught, SysInventory, shim>>

PortsClose ==
    /\ pc = "close"
    /\ log' = Append(log, <<"PortsClose", "ok">>)
    /\ pc' = "bye"
    /\ UNCHANGED <<argc, ports, netState, iPort, iNode, listOfAxes,
                   nodeTypesGood, accessLvlsGood, iAxis, returnVal, caught, SysInventory, shim>>

PortsCloseThrow(kind) ==
    /\ pc = "close"
    /\ log' = Append(log, <<"PortsClose", kind>>)
    /\ Catch(kind)
    /\ UNCHANGED <<argc, ports, netState, iPort, iNode, listOfAxes,
                   nodeTypesGood, accessLvlsGood, iAxis, SysInventory, shim>>

\* Good-bye: msgUser, return returnVal
Bye ==
    /\ pc = "bye"
    /\ log' = Append(log, <<"msgUser">>)
    /\ pc' = "done"
    /\ UNCHANGED <<argc, ports, netState, iPort, iNode, listOfAxes,
                   nodeTypesGood, accessLvlsGood, iAxis, returnVal, caught, SysInventory, shim>>

Next ==
    \/ Usage
    \/ InitializeOk
    \/ InitializeOpenFails
    \/ InitializeOpenThrows
    \/ \E kind \in ErrKinds : InitializeStatsThrow(kind)
    \/ PortHead
    \/ \E kind \in ErrKinds : PortHeadThrow(kind)
    \/ VisitNode
    \/ \E kind \in ErrKinds : VisitNodeThrowQuery(kind)
    \/ \E kind \in ErrKinds : VisitNodeThrowNew(kind)
    \/ \E kind \in ErrKinds : VisitNodeThrowAccess(kind)
    \/ NextPort
    \/ Decide
    \/ RunAxis
    \/ \E kind \in ErrKinds : RunAxisThrow(kind)
    \/ RunDone
    \/ DeleteAxes
    \/ PortsClose
    \/ \E kind \in ErrKinds : PortsCloseThrow(kind)
    \/ Bye

Spec == Init /\ [][Next]_vars

\* ------------------------------------------------------------- OS shim
MN_OK == "MN_OK"
MN_ERR_BADARG == "MN_ERR_BADARG"

HexDigit(d) == <<"0", "1", "2", "3", "4", "5", "6", "7",
                 "8", "9", "a", "b", "c", "d", "e", "f">>[d + 1]

\* the conversion %x of printf: lower-case hexadecimal, no leading zeros
RECURSIVE FormatHex(_)
FormatHex(n) ==
    IF n < 16 THEN <<HexDigit(n)>>
    ELSE Append(FormatHex(n \div 16), HexDigit(n % 16))

\* the text the format "Error: 0x%x" produces for lookupCode
FormatErrCode(lookupCode) ==
    <<"E", "r", "r", "o", "r", ":", " ", "0", "x">> \o FormatHex(lookupCode)

\* snprintf(buf, size, ...) producing `text`: the buffer afterwards. With
\* size = 0 nothing is written; otherwise at most size - 1 characters of the
\* text and a terminating NUL
SnprintfBuffer(old, size, text) ==
    IF size = 0 THEN old
    ELSE SubSeq(text, 1, IF Len(text) < size - 1 THEN Len(text) ELSE size - 1)
         \o <<"NUL">>

\* snprintf's return value: the length of the whole text, truncated or not
SnprintfReturn(text) == Len(text)

\* the value infcErrCodeStrA returns
ErrCodeStrReturn(nChars, maxLen) == IF nChars = maxLen THEN MN_OK ELSE MN_ERR_BADARG

\* infcErrCodeStrA(lookupCode, maxLen, resultStr); resultStr holds no text before
infcErrCodeStrA(lookupCode, maxLen) ==
    /\ shim.fn = "none"
    /\ LET text == FormatErrCode(lookupCode)
           nChars == SnprintfReturn(text)
       IN  shim' = [fn |-> "infcErrCodeStrA",
                    lookupCode |-> lookupCode,
                    maxLen |-> maxLen,
                    resultStr |-> SnprintfBuffer(<<>>, maxLen, text),
                    ret |-> ErrCodeStrReturn(nChars, maxLen)]
    /\ UNCHANGED <<mainVars, SysInventory>>

\* the early return of infcDbgDepth
DbgDepthRejects(cNum) == cNum > NET_CONTROLLER_MAX

\* infcDbgDepth(cNum). Reading SysInventory[cNum] past the end of the array is
\* undefined behaviour: the pointer read is then any value
infcDbgDepth(cNum) ==
    /\ shim.fn = "none"
    /\ IF DbgDepthRejects(cNum)
       THEN shim' = [fn |-> "infcDbgDepth", cNum |-> cNum, readIdx |-> -1, ret |-> 0]
       ELSE \E pNCS \in PNCSVals :
                /\ cNum \in DOMAIN SysInventory => pNCS = SysInventory[cNum]
                /\ shim' = [fn |-> "infcDbgDepth", cNum |-> cNum, readIdx |-> cNum,
                            ret |-> IF ~pNCS.isNull THEN pNCS.depth ELSE 0]
    /\ UNCHANGED <<mainVars, SysInventory>>

\* the shim call returns to the driver
ShimReturn ==
    /\ shim.fn # "none"
    /\ shim' = [fn |-> "none"]
    /\ UNCHANGED <<mainVars, SysInventory>>

\* the driver's inventory is any assignment of controllers; main has not run
ShimInit ==
    /\ argc = 2
    /\ ports = [p \in 1..numPorts |-> <<>>]
    /\ pc = "start"
    /\ netState = "Unopened"
    /\ iPort = 0
    /\ iNode = 0
    /\ listOfAxes = <<>>
    /\ nodeTypesGood = TRUE
    /\ accessLvlsGood = TRUE
    /\ iAxis = 0
    /\ returnVal = 0
    /\ caught = "none"
    /\ log = <<>>
    /\ SysInventory \in [0..NET_CONTROLLER_MAX - 1 -> PNCSVals]
    /\ shim = [fn |-> "none"]

ShimNext ==
    \/ \E lookupCode \in 0..MaxCode, maxLen \in 0..MaxBufLen :
           infcErrCodeStrA(lookupCode, maxLen)
    \/ \E cNum \in 0..MaxAddr : infcDbgDepth(cNum)
    \/ ShimReturn

ShimSpec == ShimInit /\ [][ShimNext]_vars

\* ------------------------------------------------ vocabulary of the claims
\* the nodes of the network in network order: port order, then node index
RECURSIVE NodesFrom(_)
NodesFrom(p) ==
    IF p >= numPorts THEN <<>>
    ELSE [n \in 1..Len(ports[p + 1]) |-> <<p, n - 1>>] \o NodesFrom(p + 1)
AllNodes == NodesFrom(0)

TypeOf(pn) == ports[pn[1] + 1][pn[2] + 1].type
FullOf(pn) == ports[pn[1] + 1][pn[2] + 1].full
WrongType(pn) == TypeOf(pn) \notin {"CLEARPATH_SC", "CLEARPATH_SC_ADV"}

AnyWrongType == \E i \in 1..Len(AllNodes) : WrongType(AllNodes[i])
AllTypesValid == ~AnyWrongType
SomeNotFull == \E i \in 1..Len(AllNodes) : ~FullOf(AllNodes[i])
AllFull == ~SomeNotFull

\* position in AllNodes of the first node of a wrong type; Len + 1 if none
FirstWrong ==
    IF AnyWrongType
    THEN CHOOSE i \in 1..Len(AllNodes) :
             /\ WrongType(AllNodes[i])
             /\ \A j \in 1..(i - 1) : ~WrongType(AllNodes[j])
    ELSE Len(AllNodes) + 1

\* the <<port, node>> arguments of the logged calls of one kind, in order
Events(kind) == SelectSeq(log, LAMBDA e : e[1] = kind)
CallsOn(kind) == [i \in 1..Len(Events(kind)) |-> <<Events(kind)[i][2], Events(kind)[i][3]>>]
Logged(e) == \E i \in 1..Len(log) : log[i] = e
IsPrefix(s, t) == Len(s) <= Len(t) /\ s = SubSeq(t, 1, Len(s))

\* the enumeration loop of main has run to its end
LoopEnded == (pc = "port" /\ iPort >= numPorts) \/ netState \in {"Ready", "Rejected"}
\* main has returned without entering a catch clause, the ports having opened
ReturnedNoError == pc = "done" /\ caught = "none" /\ Logged(<<"PortsOpen", "ok">>)

\* ------------------------------------------------------------- claims
\* C1: when PortsOpen raises mnErr, no port's NodeCount or Nodes is queried,
\* no node statistics are printed, no Axis is constructed, and main has
\* returned -2 (after one msgUser) without entering the enumeration loop.
C1_OpenFailureStopsBringup ==
    Logged(<<"PortsOpen", "mnErr">>) =>
        /\ Events("NodeCount") = <<>>
        /\ Events("Nodes") = <<>>
        /\ Events("new") = <<>>
        /\ listOfAxes = <<>>
        /\ netState = "OpenFailed"
        /\ pc = "done"
        /\ returnVal = -2

C1_Witness ==
    /\ pc = "done"
    /\ Logged(<<"PortsOpen", "mnErr">>)
    /\ Len(AllNodes) >= 2
    /\ returnVal = -2

\* C2 as stated: if any node has a wrong type, listOfAxes is empty at the end
\* of the enumeration loop.
C2_AnyWrongTypeNoAxes ==
    (LoopEnded /\ AnyWrongType) => listOfAxes = <<>>

\* C2 as amended: if any node has a wrong type, no Axis is constructed for the
\* first node of a wrong type nor for any node after it; at the end of the
\* loop listOfAxes holds as many axes as there are nodes before that node
\* (none exactly when the first node of the network has a wrong type).
C2_NoAxisFromFirstWrongType ==
    AnyWrongType =>
        /\ \A i \in 1..Len(AllNodes) :
               i >= FirstWrong => /\ ~Logged(<<"new">> \o AllNodes[i])
                                  /\ \A k \in 1..Len(listOfAxes) :
                                         listOfAxes[k] # AllNodes[i]
        /\ LoopEnded => /\ Len(listOfAxes) = FirstWrong - 1
                        /\ (listOfAxes = <<>> <=> WrongType(AllNodes[1]))

C2_Witness ==
    /\ LoopEnded
    /\ Len(AllNodes) = 3
    /\ FirstWrong = 2
    /\ Len(listOfAxes) = 1

\* C3: when all node types are valid and some node lacks full access, one Axis
\* is constructed for every node, AxisMain is never invoked, the decision is
\* Rejected, and a run that ends without a driver error returns -6.
C3_AccessRejected ==
    (AllTypesValid /\ SomeNotFull) =>
        /\ Events("AxisMain") = <<>>
        /\ netState # "Ready"
        /\ LoopEnded => /\ listOfAxes = AllNodes
                        /\ CallsOn("new") = AllNodes
        /\ ReturnedNoError => netState = "Rejected" /\ returnVal = -6

C3_Witness ==
    /\ ReturnedNoError
    /\ AllTypesValid
    /\ Len(AllNodes) = 3
    /\ ~FullOf(AllNodes[2])
    /\ FullOf(AllNodes[1])
    /\ Len(listOfAxes) = 3
    /\ returnVal = -6

\* C4: in a run that reached Ready, Rejected or OpenFailed and has returned,
\* every Axis constructed was deleted exactly once, PortsClose was called
\* exactly once, and every deletion precedes the PortsClose call.
C4_TeardownExactlyOnce ==
    (pc = "done" /\ netState \in {"Ready", "Rejected", "OpenFailed"}) =>
        /\ CallsOn("delete") = CallsOn("new")
        /\ Len(Events("PortsClose")) = 1
        /\ \A i \in 1..Len(log) :
               log[i][1] = "delete" =>
                   \E j \in (i + 1)..Len(log) : log[j][1] = "PortsClose"

\* C5 as stated: AxisMain is invoked only in state Ready, which is entered only
\* when every node passed both checks; a run that reached Ready has invoked
\* it exactly once per node in network order, and returns 0 if no driver error
\* was raised.
C5_AxisMainOncePerNode ==
    /\ Events("AxisMain") # <<>> => netState = "Ready"
    /\ netState = "Ready" => AllTypesValid /\ AllFull
    /\ (pc = "done" /\ netState = "Ready") => CallsOn("AxisMain") = AllNodes
    /\ (ReturnedNoError /\ netState = "Ready") => returnVal = 0

\* C5 as amended: AxisMain is invoked only in state Ready, which is entered
\* only when every node passed both checks; the invocations are at most one
\* per node, in network order, and a run that reached Ready and raised no
\* driver error has invoked it exactly once per node and returns 0.
C5_AxisMainInOrder ==
    /\ Events("AxisMain") # <<>> => netState = "Ready"
    /\ netState = "Ready" => AllTypesValid /\ AllFull
    /\ IsPrefix(CallsOn("AxisMain"), AllNodes)
    /\ (ReturnedNoError /\ netState = "Ready") =>
           /\ CallsOn("AxisMain") = AllNodes
           /\ returnVal = 0

C5_Witness ==
    /\ ReturnedNoError
    /\ netState = "Ready"
    /\ Len(AllNodes) = 3
    /\ CallsOn("AxisMain") = AllNodes
    /\ returnVal = 0

\* C6: when a driver error is raised after the ports were opened, the run
\* that has returned deleted every Axis constructed, called PortsClose, called
\* msgUser exactly once and returns -3 (mnErr) or -4 (anything else).
C6_TeardownOnError ==
    (pc = "done" /\ caught # "none" /\ Logged(<<"PortsOpen", "ok">>)) =>
        /\ CallsOn("delete") = CallsOn("new")
        /\ Events("PortsClose") # <<>>
        /\ Len(Events("msgUser")) = 1
        /\ returnVal = (IF caught = "mnErr" THEN -3 ELSE -4)

\* C7: a rejected run that ends without a driver error returns -5 whenever any
\* node has a wrong type, whatever the access levels, and -6 only when all
\* types are valid and some node lacks full access; no other code is
\* returned by a rejected run.
C7_RejectReason ==
    /\ (ReturnedNoError /\ AnyWrongType) => netState = "Rejected" /\ returnVal = -5
    /\ (ReturnedNoError /\ netState = "Rejected") => returnVal \in {-5, -6}
    /\ returnVal = -5 => AnyWrongType
    /\ returnVal = -6 => AllTypesValid /\ SomeNotFull

C7_Witness ==
    /\ ReturnedNoError
    /\ Len(AllNodes) >= 2
    /\ ~FullOf(AllNodes[1])
    /\ ~WrongType(AllNodes[1])
    /\ WrongType(AllNodes[2])
    /\ ~accessLvlsGood
    /\ returnVal = -5

\* C8: infcErrCodeStrA returns MN_OK exactly when the whole text
\* "Error: 0x<code>" and its terminator are in resultStr, and MN_ERR_BADARG
\* exactly when the text did not fit.
C8_ErrCodeStrOkIffFits ==
    shim.fn = "infcErrCodeStrA" =>
        (shim.ret = "MN_OK"
            <=> shim.resultStr = FormatErrCode(shim.lookupCode) \o <<"NUL">>)

\* C9: the two flags never go from false back to true; the access level is
\* evaluated and an Axis constructed only for nodes before the first node of
\* a wrong type; after the loop listOfAxes holds exactly those nodes, in
\* network order.
C9_TwoPhaseShortCircuit ==
    /\ [][/\ ~nodeTypesGood => ~nodeTypesGood'
          /\ ~accessLvlsGood => ~accessLvlsGood']_vars
    /\ [](/\ IsPrefix(listOfAxes, SubSeq(AllNodes, 1, FirstWrong - 1))
          /\ CallsOn("new") = listOfAxes
          /\ IsPrefix(CallsOn("AccessLevelIsFull"), listOfAxes)
          /\ LoopEnded => /\ listOfAxes = SubSeq(AllNodes, 1, FirstWrong - 1)
                          /\ CallsOn("AccessLevelIsFull") = listOfAxes
                          /\ nodeTypesGood = AllTypesValid)

C9_Witness ==
    /\ LoopEnded
    /\ Len(AllNodes) = 3
    /\ FirstWrong = 2
    /\ ~WrongType(AllNodes[3])
    /\ ~FullOf(AllNodes[3])
    /\ ~nodeTypesGood
    /\ accessLvlsGood
    /\ listOfAxes = <<AllNodes[1]>>

\* C10: infcDbgDepth reads SysInventory only at an index within
\* 0..NET_CONTROLLER_MAX-1, and returns 0 without reading the array for every
\* other cNum.
C10_DbgDepthInBounds ==
    shim.fn = "infcDbgDepth" =>
        /\ shim.readIdx # -1 => shim.readIdx \in 0..(NET_CONTROLLER_MAX - 1)
        /\ shim.cNum \notin 0..(NET_CONTROLLER_MAX - 1) =>
               shim.readIdx = -1 /\ shim.ret = 0

====
